---- MODULE Spec2Model ----
(***************************************************************************)
(* vpROSRobot (src/src/robot/vpROSRobot.cpp): the two init overloads, the  *)
(* odometry callback, the accessors getPosition / getDisplacement /        *)
(* setVelocity and the flag odom_mutex they spin on.                       *)
(*                                                                         *)
(* Threads: thread Spinner is the ros::AsyncSpinner(1) thread that runs    *)
(* odomCallback, one message at a time; threads 1..NumCallers are caller   *)
(* threads.  Every statement of the source that touches a shared member is *)
(* one step, so the interleavings of the unsynchronised flag and of the    *)
(* members it is meant to protect are those of the statements.             *)
(*                                                                         *)
(* Numbers: the doubles of the source are integers here.  Time differences *)
(* are counted in ticks of half a second, so dt and the displacement are   *)
(* exact (no rounding is modelled); a quaternion component v is held as    *)
(* the integer 2v, which makes the 24 Hurwitz unit quaternions available.  *)
(***************************************************************************)
EXTENDS Integers, Sequences, FiniteSets, TLC

(* ------------------------------ bounds -------------------------------- *)
NumCallers == 2
MaxSamples == 2
MaxCalls == 2
SeqMaxSamples == 3
SeqMaxCalls == 3
PCMaxSamples == 3
PCMaxCalls == 3
SVMaxSamples == 2
SVMaxCalls == 2

(* ----------------------------- constants ------------------------------ *)
NsecPerSec == 1000000000
NsecPerTick == NsecPerSec \div 2
TicksPerSec == NsecPerSec \div NsecPerTick

Spinner == 0
Callers == 1..NumCallers
Threads == {Spinner} \cup Callers

REFERENCE_FRAME == "REFERENCE_FRAME"
Frames == {REFERENCE_FRAME, "ARTICULAR_FRAME", "CAMERA_FRAME", "MIXT_FRAME"}
ConcFrames == {REFERENCE_FRAME, "CAMERA_FRAME"}

Zero6 == <<0, 0, 0, 0, 0, 0>>
Untouched == <<>>

VAdd(a, b) == [i \in 1..6 |-> a[i] + b[i]]
VSub(a, b) == [i \in 1..6 |-> a[i] - b[i]]
VScale(a, k) == [i \in 1..6 |-> a[i] * k]

(* ------------------------ the messages delivered ---------------------- *)
\* Two kinds of sample that differ in every field of pose and twist, at each of
\* four stamps: 0, 0.5 s, 1 s and 1.5 s.
Kinds == { [pos |-> <<1, 2, 3>>, ori |-> <<1, 1, 1, 1>>, twist |-> <<1, 0, 0, 0, 0, 0>>],
           [pos |-> <<4, 5, 6>>, ori |-> <<1, -1, 1, 1>>, twist |-> <<1, 2, 3, 4, 5, 6>>] }
Stamps == { <<0, 0>>, <<0, NsecPerTick>>, <<1, 0>>, <<1, NsecPerTick>> }
Msgs == { [pos |-> k.pos, ori |-> k.ori, sec |-> st[1], nsec |-> st[2], twist |-> k.twist] :
            k \in Kinds, st \in Stamps }
NoMsg == [pos |-> <<0, 0, 0>>, ori |-> <<0, 0, 0, 2>>, sec |-> 0, nsec |-> 0, twist |-> Zero6]
Velocities == { <<1, 2, 3, 4, 5, 6>>, <<0, 3, 0, 0, 0, 0>> }

\* The messages and commands of the interleaved runs: two samples that differ in
\* every field, the first stamped half a second after 0.
ConcMsgs ==
    { m \in Msgs :
        \/ (m.pos = <<1, 2, 3>> /\ m.sec = 0 /\ m.nsec = NsecPerTick /\ m.twist = <<1, 0, 0, 0, 0, 0>>)
        \/ (m.pos = <<4, 5, 6>> /\ m.sec = 1 /\ m.nsec = 0 /\ m.twist = <<1, 2, 3, 4, 5, 6>>) }
ConcVelocities == { <<1, 2, 3, 4, 5, 6>> }

\* The messages of the sequential runs: both kinds, stamped 0, 0.5 s or 1 s.
SeqMsgs == { m \in Msgs : m.sec = 0 \/ m.nsec = 0 }

(* --------------- orientation -> angles (vpRxyzVector) ----------------- *)
\* atan2 on the axes, in quarter turns (the only cases a signed permutation
\* matrix produces); atan2(0, 0) = 0.
Atan2Q(y, x) ==
    CASE y = 0 /\ x > 0 -> 0
      [] y > 0 /\ x = 0 -> 1
      [] y < 0 /\ x = 0 -> -1
      [] y = 0 /\ x < 0 -> 2
      [] OTHER -> 0

\* vpRotationMatrix R(q): qq = <<2x, 2y, 2z, 2w>>.
QuatToR(qq) ==
    LET b == qq[1]
        c == qq[2]
        d == qq[3]
        a == qq[4]
    IN  << << (a*a + b*b - c*c - d*d) \div 4, (b*c - a*d) \div 2, (a*c + b*d) \div 2 >>,
           << (a*d + b*c) \div 2, (a*a - b*b + c*c - d*d) \div 4, (c*d - a*b) \div 2 >>,
           << (b*d - a*c) \div 2, (a*b + c*d) \div 2, (a*a - b*b - c*c + d*d) \div 4 >> >>

\* vpRxyzVector V(R), angles in quarter turns.
RToRxyz(R) ==
    LET phi == IF R[2][3] = 0 /\ R[3][3] = 0 THEN 0 ELSE Atan2Q(-R[2][3], R[3][3])
        si == CASE phi = 1 -> 1 [] phi = -1 -> -1 [] OTHER -> 0
        co == CASE phi = 0 -> 1 [] phi = 2 -> -1 [] OTHER -> 0
        theta == Atan2Q(R[1][3], -si * R[2][3] + co * R[3][3])
        psi == Atan2Q(co * R[2][1] + si * R[3][1], co * R[2][2] + si * R[3][2])
    IN  <<phi, theta, psi>>

QuatToRxyz(qq) == RToRxyz(QuatToR(qq))

\* The pose getPosition builds from a position and an orientation.
PoseOf(pp, qq) == pp \o QuatToRxyz(qq)

(* ------------------------------- state -------------------------------- *)
VARIABLES
    odom_mutex,     \* the spin flag: TRUE = free
    p, q,           \* latest position, orientation
    _sec, _nsec,    \* stamp of the latest sample (0, 0 before the first)
    displacement,   \* accumulator
    pose_prev,      \* baseline of getDisplacement
    cmdvel,         \* the publisher (queue of 1): how many commands were published, and the last
    isInitialized,  \* the member isInitialized
    ros_isInitialized, \* ros::isInitialized(), process-wide
    master_URI,     \* ros::master::getURI(), process-wide
    created,        \* how many node handles, publishers, subscriptions, spinners init made
    initStatus,     \* the last init call: "none" | "ok" | "error" | "crash"
    alive,          \* the process runs
    pc,             \* pc[t]: where thread t stands
    msg, dt, acc_i, \* odomCallback: its argument, its local dt, the component it adds next
    op, frame,      \* caller: the call and its frame argument
    pose_cur,       \* getDisplacement's local
    timestamp,      \* getDisplacement's out-parameter
    out,            \* the out-parameter pose / dis
    status,         \* "none" | "running" | "ok" | "error"
    nSamples,       \* samples delivered
    nDone,          \* callbacks completed
    nCalls,         \* calls started
    shadow,         \* history: the record after the completed samples, applied one by one
    ideal,          \* history: sum of twist_k * (t_k - t_(k-1)) over the completed samples k >= 2
    increasing,     \* history: the completed samples' stamps are strictly increasing
    sumDis,         \* history: sum of the deltas getDisplacement returned
    lastRead,       \* history: shadow accumulator at the last getDisplacement that returned a delta
    quiet,          \* history: that call passed its wait after every sample delivered so far
                    \*          was integrated, and no sample was delivered since
    acq             \* history: acq[c] = the shadow and nDone when c passed the wait on odom_mutex

record == <<p, q, _sec, _nsec, displacement>>
cbLocals == <<msg, dt, acc_i>>
callerLocals == <<op, frame, pose_cur, timestamp, out, status>>
history == <<nSamples, nDone, nCalls, shadow, ideal, increasing, sumDis, lastRead, quiet, acq>>
lifecycle == <<isInitialized, ros_isInitialized, master_URI, created, initStatus, alive>>
vars == <<odom_mutex, record, pose_prev, cmdvel, lifecycle, pc, cbLocals, callerLocals, history>>

\* vpROSRobot::vpROSRobot
InitRecord == [p |-> <<0, 0, 0>>, q |-> <<0, 0, 0, 2>>, sec |-> 0, nsec |-> 0,
               displacement |-> Zero6]

\* geometry_msgs::Twist msg
NoTwist == [linear |-> <<0, 0, 0>>, angular |-> <<0, 0, 0>>]

NoAcq == [rec |-> InitRecord, n |-> 0]

\* _master_uri("http://127.0.0.1:11311"); no member function of the source changes it.
_master_uri == "http://127.0.0.1:11311"

\* The master endpoints the process may be bound to.
URIs == {_master_uri, "http://10.0.0.1:11311"}

NoURI == ""

NothingCreated == [n |-> 0, cmdvel |-> 0, odom |-> 0, spinner |-> 0]

Init ==
    /\ odom_mutex = TRUE
    /\ p = InitRecord.p
    /\ q = InitRecord.q
    /\ _sec = InitRecord.sec
    /\ _nsec = InitRecord.nsec
    /\ displacement = InitRecord.displacement
    /\ pose_prev = Zero6
    /\ cmdvel = [n |-> 0, last |-> NoTwist]
    /\ isInitialized = FALSE
    /\ ros_isInitialized = FALSE
    /\ master_URI = NoURI
    /\ created = NothingCreated
    /\ initStatus = "none"
    /\ alive = TRUE
    /\ pc = [t \in Threads |-> "idle"]
    /\ msg = NoMsg
    /\ dt = 0
    /\ acc_i = 0
    /\ op = [c \in Callers |-> "none"]
    /\ frame = [c \in Callers |-> REFERENCE_FRAME]
    /\ pose_cur = [c \in Callers |-> Zero6]
    /\ timestamp = [c \in Callers |-> <<0, 0>>]
    /\ out = [c \in Callers |-> Untouched]
    /\ status = [c \in Callers |-> "none"]
    /\ nSamples = 0
    /\ nDone = 0
    /\ nCalls = 0
    /\ shadow = InitRecord
    /\ ideal = Zero6
    /\ increasing = TRUE
    /\ sumDis = Zero6
    /\ lastRead = Zero6
    /\ quiet = FALSE
    /\ acq = [c \in Callers |-> NoAcq]

(* ---------------------------- odomCallback ---------------------------- *)
\* double dt = (sec - _sec) + (nsec - _nsec) / 1e9, in ticks.
Dt(m, s, ns) == (m.sec - s) * TicksPerSec + (m.nsec - ns) \div NsecPerTick

\* lastSampleTime counts as set
StampSet(s, ns) == s # 0 \/ ns # 0

\* The whole callback on a record, run alone.
OdomCallbackSeq(r, m) ==
    [p |-> m.pos, q |-> m.ori, sec |-> m.sec, nsec |-> m.nsec,
     displacement |-> IF StampSet(r.sec, r.nsec)
                      THEN VAdd(r.displacement, VScale(m.twist, Dt(m, r.sec, r.nsec)))
                      ELSE r.displacement]

\* The transport hands the next message to the callback of the subscription
\* init made.
Deliver(m, limit) ==
    /\ isInitialized
    /\ pc[Spinner] = "idle"
    /\ nSamples < limit
    /\ pc' = [pc EXCEPT ![Spinner] = "cb_wait"]
    /\ msg' = m
    /\ nSamples' = nSamples + 1
    /\ quiet' = FALSE
    /\ UNCHANGED <<odom_mutex, record, pose_prev, cmdvel, lifecycle, dt, acc_i, callerLocals,
                   nDone, nCalls, shadow, ideal, increasing, sumDis, lastRead, acq>>

\* while(!odom_mutex);
CbWait ==
    /\ pc[Spinner] = "cb_wait"
    /\ odom_mutex
    /\ pc' = [pc EXCEPT ![Spinner] = "cb_lock"]
    /\ UNCHANGED <<odom_mutex, record, pose_prev, cmdvel, lifecycle, cbLocals, callerLocals, history>>

\* odom_mutex = false;
CbLock ==
    /\ pc[Spinner] = "cb_lock"
    /\ odom_mutex' = FALSE
    /\ pc' = [pc EXCEPT ![Spinner] = "cb_p"]
    /\ UNCHANGED <<record, pose_prev, cmdvel, lifecycle, cbLocals, callerLocals, history>>

\* p.set(...)
CbSetP ==
    /\ pc[Spinner] = "cb_p"
    /\ p' = msg.pos
    /\ pc' = [pc EXCEPT ![Spinner] = "cb_q"]
    /\ UNCHANGED <<odom_mutex, q, _sec, _nsec, displacement, pose_prev, cmdvel, lifecycle, cbLocals,
                   callerLocals, history>>

\* Faulty variant: the quaternion's w is stored first
CbSetQ_WFirst ==
    /\ pc[Spinner] = "cb_q"
    /\ q' = <<msg.ori[4], msg.ori[1], msg.ori[2], msg.ori[3]>>
    /\ pc' = [pc EXCEPT ![Spinner] = "cb_if"]
    /\ UNCHANGED <<odom_mutex, p, _sec, _nsec, displacement, pose_prev, cmdvel, lifecycle, cbLocals,
                   callerLocals, history>>

\* q.set(...)
CbSetQ ==
    /\ pc[Spinner] = "cb_q"
    /\ q' = msg.ori
    /\ pc' = [pc EXCEPT ![Spinner] = "cb_if"]
    /\ UNCHANGED <<odom_mutex, p, _sec, _nsec, displacement, pose_prev, cmdvel, lifecycle, cbLocals,
                   callerLocals, history>>

\* Faulty variant: a sample that is not later than the one before it is not
\* integrated.
CbIf_LaterOnly ==
    /\ pc[Spinner] = "cb_if"
    /\ IF StampSet(_sec, _nsec) /\ Dt(msg, _sec, _nsec) > 0
       THEN /\ dt' = Dt(msg, _sec, _nsec)
            /\ acc_i' = 1
            /\ pc' = [pc EXCEPT ![Spinner] = "cb_acc"]
       ELSE /\ pc' = [pc EXCEPT ![Spinner] = "cb_sec"]
            /\ UNCHANGED <<dt, acc_i>>
    /\ UNCHANGED <<odom_mutex, record, pose_prev, cmdvel, lifecycle, msg, callerLocals, history>>

\* if(_sec != 0 || _nsec != 0){ double dt = ...
CbIf ==
    /\ pc[Spinner] = "cb_if"
    /\ IF StampSet(_sec, _nsec)
       THEN /\ dt' = Dt(msg, _sec, _nsec)
            /\ acc_i' = 1
            /\ pc' = [pc EXCEPT ![Spinner] = "cb_acc"]
       ELSE /\ pc' = [pc EXCEPT ![Spinner] = "cb_sec"]
            /\ UNCHANGED <<dt, acc_i>>
    /\ UNCHANGED <<odom_mutex, record, pose_prev, cmdvel, lifecycle, msg, callerLocals, history>>

\* Faulty variant: = in place of +=
CbAccumulate_Assign ==
    /\ pc[Spinner] = "cb_acc"
    /\ displacement' = [displacement EXCEPT ![acc_i] = msg.twist[acc_i] * dt]
    /\ IF acc_i < 6
       THEN /\ acc_i' = acc_i + 1
            /\ UNCHANGED pc
       ELSE /\ acc_i' = 0
            /\ pc' = [pc EXCEPT ![Spinner] = "cb_sec"]
    /\ UNCHANGED <<odom_mutex, p, q, _sec, _nsec, pose_prev, cmdvel, lifecycle, msg, dt,
                   callerLocals, history>>

\* displacement[i] += twist[i] * dt;   (six statements, i = 0..5)
CbAccumulate ==
    /\ pc[Spinner] = "cb_acc"
    /\ displacement' = [displacement EXCEPT ![acc_i] = @ + msg.twist[acc_i] * dt]
    /\ IF acc_i < 6
       THEN /\ acc_i' = acc_i + 1
            /\ UNCHANGED pc
       ELSE /\ acc_i' = 0
            /\ pc' = [pc EXCEPT ![Spinner] = "cb_sec"]
    /\ UNCHANGED <<odom_mutex, p, q, _sec, _nsec, pose_prev, cmdvel, lifecycle, msg, dt,
                   callerLocals, history>>

\* _sec = msg->header.stamp.sec;
CbSetSec ==
    /\ pc[Spinner] = "cb_sec"
    /\ _sec' = msg.sec
    /\ pc' = [pc EXCEPT ![Spinner] = "cb_nsec"]
    /\ UNCHANGED <<odom_mutex, p, q, _nsec, displacement, pose_prev, cmdvel, lifecycle, cbLocals,
                   callerLocals, history>>

\* _nsec = msg->header.stamp.nsec;
CbSetNsec ==
    /\ pc[Spinner] = "cb_nsec"
    /\ _nsec' = msg.nsec
    /\ pc' = [pc EXCEPT ![Spinner] = "cb_unlock"]
    /\ UNCHANGED <<odom_mutex, p, q, _sec, displacement, pose_prev, cmdvel, lifecycle, cbLocals,
                   callerLocals, history>>

\* odom_mutex = true;  and the callback returns
CbUnlock ==
    /\ pc[Spinner] = "cb_unlock"
    /\ odom_mutex' = TRUE
    /\ pc' = [pc EXCEPT ![Spinner] = "idle"]
    /\ dt' = 0
    /\ nDone' = nDone + 1
    /\ shadow' = OdomCallbackSeq(shadow, msg)
    /\ ideal' = IF nDone = 0 THEN Zero6
                ELSE VAdd(ideal, VScale(msg.twist, Dt(msg, shadow.sec, shadow.nsec)))
    /\ increasing' = (increasing /\ (nDone = 0 \/ Dt(msg, shadow.sec, shadow.nsec) > 0))
    /\ UNCHANGED <<record, pose_prev, cmdvel, lifecycle, msg, acc_i, callerLocals,
                   nSamples, nCalls, sumDis, lastRead, quiet, acq>>

OdomCallback ==
    \/ CbWait
    \/ CbLock
    \/ CbSetP
    \/ CbSetQ
    \/ CbIf
    \/ CbAccumulate
    \/ CbSetSec
    \/ CbSetNsec
    \/ CbUnlock

(* ------------------------------ callers ------------------------------- *)
\* A caller thread enters one of the accessors of the adapter, once init has
\* made it active.
Begin(c, o, f, limit, first) ==
    /\ isInitialized
    /\ pc[c] = "idle"
    /\ nCalls < limit
    /\ nCalls' = nCalls + 1
    /\ pc' = [pc EXCEPT ![c] = first]
    /\ op' = [op EXCEPT ![c] = o]
    /\ frame' = [frame EXCEPT ![c] = f]
    /\ status' = [status EXCEPT ![c] = "running"]
    /\ pose_cur' = [pose_cur EXCEPT ![c] = Zero6]
    /\ timestamp' = [timestamp EXCEPT ![c] = <<0, 0>>]
    /\ out' = [out EXCEPT ![c] = Untouched]

\* Faulty variant: setVelocity that fills the linear fields from vel[3..5] and the
\* angular fields from vel[0..2].
SetVelocity_Swapped(c, f, vel, limit) ==
    /\ isInitialized
    /\ pc[c] = "idle"
    /\ nCalls < limit
    /\ nCalls' = nCalls + 1
    /\ op' = [op EXCEPT ![c] = "setVelocity"]
    /\ out' = [out EXCEPT ![c] = Untouched]
    /\ timestamp' = [timestamp EXCEPT ![c] = <<0, 0>>]
    /\ UNCHANGED <<pc, frame, pose_cur>>
    /\ IF f = REFERENCE_FRAME
       THEN /\ cmdvel' = [n |-> cmdvel.n + 1,
                            last |-> [linear |-> <<vel[4], vel[5], vel[6]>>,
                                      angular |-> <<vel[1], vel[2], vel[3]>>]]
            /\ status' = [status EXCEPT ![c] = "ok"]
       ELSE /\ UNCHANGED cmdvel
            /\ status' = [status EXCEPT ![c] = "error"]
    /\ UNCHANGED <<odom_mutex, record, pose_prev, lifecycle, cbLocals,
                   nSamples, nDone, shadow, ideal, increasing, sumDis, lastRead, quiet, acq>>

\* setVelocity(frame, vel) on the publisher init made: no shared member is read
\* or written.
SetVelocity(c, f, vel, limit) ==
    /\ isInitialized
    /\ pc[c] = "idle"
    /\ nCalls < limit
    /\ nCalls' = nCalls + 1
    /\ op' = [op EXCEPT ![c] = "setVelocity"]
    /\ out' = [out EXCEPT ![c] = Untouched]
    /\ timestamp' = [timestamp EXCEPT ![c] = <<0, 0>>]
    /\ UNCHANGED <<pc, frame, pose_cur>>
    /\ IF f = REFERENCE_FRAME
       THEN /\ cmdvel' = [n |-> cmdvel.n + 1,
                            last |-> [linear |-> <<vel[1], vel[2], vel[3]>>,
                                      angular |-> <<vel[4], vel[5], vel[6]>>]]
            /\ status' = [status EXCEPT ![c] = "ok"]
       ELSE /\ UNCHANGED cmdvel
            /\ status' = [status EXCEPT ![c] = "error"]
    /\ UNCHANGED <<odom_mutex, record, pose_prev, lifecycle, cbLocals,
                   nSamples, nDone, shadow, ideal, increasing, sumDis, lastRead, quiet, acq>>

CallGetPosition(c, f, limit) ==
    /\ Begin(c, "getPosition", f, limit, "gp_wait")
    /\ UNCHANGED <<odom_mutex, record, pose_prev, cmdvel, lifecycle, cbLocals,
                   nSamples, nDone, shadow, ideal, increasing, sumDis, lastRead, quiet, acq>>

CallGetDisplacement(c, f, limit) ==
    /\ Begin(c, "getDisplacement", f, limit, "gd_wait")
    /\ UNCHANGED <<odom_mutex, record, pose_prev, cmdvel, lifecycle, cbLocals,
                   nSamples, nDone, shadow, ideal, increasing, sumDis, lastRead, quiet, acq>>

\* The call of thread c returns (st = "ok") or throws (st = "error").
Finish(c, st) ==
    /\ pc' = [pc EXCEPT ![c] = "idle"]
    /\ status' = [status EXCEPT ![c] = st]
    /\ frame' = [frame EXCEPT ![c] = REFERENCE_FRAME]
    /\ pose_cur' = [pose_cur EXCEPT ![c] = Zero6]
    /\ acq' = [acq EXCEPT ![c] = NoAcq]

(* ---------------------------- getPosition ----------------------------- *)
\* while(!odom_mutex);
GpWait(c) ==
    /\ pc[c] = "gp_wait"
    /\ odom_mutex
    /\ pc' = [pc EXCEPT ![c] = "gp_lock"]
    /\ acq' = [acq EXCEPT ![c] = [rec |-> shadow, n |-> nDone]]
    /\ UNCHANGED <<odom_mutex, record, pose_prev, cmdvel, lifecycle, cbLocals, callerLocals,
                   nSamples, nDone, nCalls, shadow, ideal, increasing, sumDis, lastRead, quiet>>

\* odom_mutex = false;
GpLock(c) ==
    /\ pc[c] = "gp_lock"
    /\ odom_mutex' = FALSE
    /\ pc' = [pc EXCEPT ![c] = "gp_frame"]
    /\ UNCHANGED <<record, pose_prev, cmdvel, lifecycle, cbLocals, callerLocals, history>>

\* if (frame == vpRobot::REFERENCE_FRAME) ... else throw: the throw leaves the
\* function before the last statement, odom_mutex = true.
GpFrame(c) ==
    /\ pc[c] = "gp_frame"
    /\ IF frame[c] = REFERENCE_FRAME
       THEN /\ pc' = [pc EXCEPT ![c] = "gp_p"]
            /\ UNCHANGED <<status, frame, pose_cur, acq>>
       ELSE Finish(c, "error")
    /\ UNCHANGED <<odom_mutex, record, pose_prev, cmdvel, lifecycle, cbLocals, op, timestamp, out,
                   nSamples, nDone, nCalls, shadow, ideal, increasing, sumDis, lastRead, quiet>>

\* pose.resize(6); pose[0] = p[0]; pose[1] = p[1]; pose[2] = p[2];
GpReadP(c) ==
    /\ pc[c] = "gp_p"
    /\ out' = [out EXCEPT ![c] = p \o <<0, 0, 0>>]
    /\ pc' = [pc EXCEPT ![c] = "gp_q"]
    /\ UNCHANGED <<odom_mutex, record, pose_prev, cmdvel, lifecycle, cbLocals, op, frame, pose_cur,
                   timestamp, status, history>>

\* vpRotationMatrix R(q); vpRxyzVector V(R); pose[3] = V[0]; pose[4] = V[1]; pose[5] = V[2];
GpReadQ(c) ==
    /\ pc[c] = "gp_q"
    /\ out' = [out EXCEPT ![c] = SubSeq(@, 1, 3) \o QuatToRxyz(q)]
    /\ pc' = [pc EXCEPT ![c] = "gp_unlock"]
    /\ UNCHANGED <<odom_mutex, record, pose_prev, cmdvel, lifecycle, cbLocals, op, frame, pose_cur,
                   timestamp, status, history>>

\* odom_mutex = true;  and getPosition returns
GpUnlock(c) ==
    /\ pc[c] = "gp_unlock"
    /\ odom_mutex' = TRUE
    /\ Finish(c, "ok")
    /\ UNCHANGED <<record, pose_prev, cmdvel, lifecycle, cbLocals, op, timestamp, out,
                   nSamples, nDone, nCalls, shadow, ideal, increasing, sumDis, lastRead, quiet>>

GetPosition(c) ==
    \/ GpWait(c)
    \/ GpLock(c)
    \/ GpFrame(c)
    \/ GpReadP(c)
    \/ GpReadQ(c)
    \/ GpUnlock(c)

(* --------------------------- getDisplacement -------------------------- *)
\* while(!odom_mutex);
GdWait(c) ==
    /\ pc[c] = "gd_wait"
    /\ odom_mutex
    /\ pc' = [pc EXCEPT ![c] = "gd_lock"]
    /\ acq' = [acq EXCEPT ![c] = [rec |-> shadow, n |-> nDone]]
    /\ UNCHANGED <<odom_mutex, record, pose_prev, cmdvel, lifecycle, cbLocals, callerLocals,
                   nSamples, nDone, nCalls, shadow, ideal, increasing, sumDis, lastRead, quiet>>

\* odom_mutex = false;
GdLock(c) ==
    /\ pc[c] = "gd_lock"
    /\ odom_mutex' = FALSE
    /\ pc' = [pc EXCEPT ![c] = "gd_cur"]
    /\ UNCHANGED <<record, pose_prev, cmdvel, lifecycle, cbLocals, callerLocals, history>>

\* vpColVector pose_cur(displacement);
GdCopy(c) ==
    /\ pc[c] = "gd_cur"
    /\ pose_cur' = [pose_cur EXCEPT ![c] = displacement]
    /\ pc' = [pc EXCEPT ![c] = "gd_sec"]
    /\ UNCHANGED <<odom_mutex, record, pose_prev, cmdvel, lifecycle, cbLocals, op, frame, timestamp, out,
                   status, history>>

\* timestamp.tv_sec = _sec;
GdReadSec(c) ==
    /\ pc[c] = "gd_sec"
    /\ timestamp' = [timestamp EXCEPT ![c] = <<_sec, @[2]>>]
    /\ pc' = [pc EXCEPT ![c] = "gd_nsec"]
    /\ UNCHANGED <<odom_mutex, record, pose_prev, cmdvel, lifecycle, cbLocals, op, frame, pose_cur, out,
                   status, history>>

\* timestamp.tv_nsec = _nsec;
GdReadNsec(c) ==
    /\ pc[c] = "gd_nsec"
    /\ timestamp' = [timestamp EXCEPT ![c] = <<@[1], _nsec>>]
    /\ pc' = [pc EXCEPT ![c] = "gd_unlock"]
    /\ UNCHANGED <<odom_mutex, record, pose_prev, cmdvel, lifecycle, cbLocals, op, frame, pose_cur, out,
                   status, history>>

\* odom_mutex = true;
GdUnlock(c) ==
    /\ pc[c] = "gd_unlock"
    /\ odom_mutex' = TRUE
    /\ pc' = [pc EXCEPT ![c] = "gd_frame"]
    /\ UNCHANGED <<record, pose_prev, cmdvel, lifecycle, cbLocals, callerLocals, history>>

\* Faulty variant: the frame is not checked
GdFrame_NoCheck(c) ==
    /\ pc[c] = "gd_frame"
    /\ pc' = [pc EXCEPT ![c] = "gd_dis"]
    /\ UNCHANGED <<odom_mutex, record, pose_prev, cmdvel, lifecycle, cbLocals, callerLocals, history>>

\* if(frame == vpRobot::REFERENCE_FRAME){ ... } else throw
GdFrame(c) ==
    /\ pc[c] = "gd_frame"
    /\ IF frame[c] = REFERENCE_FRAME
       THEN /\ pc' = [pc EXCEPT ![c] = "gd_dis"]
            /\ UNCHANGED <<status, frame, pose_cur, acq>>
       ELSE Finish(c, "error")
    /\ UNCHANGED <<odom_mutex, record, pose_prev, cmdvel, lifecycle, cbLocals, op, timestamp, out,
                   nSamples, nDone, nCalls, shadow, ideal, increasing, sumDis, lastRead, quiet>>

\* Faulty variant: the baseline is not subtracted
GdDis_NoBaseline(c) ==
    /\ pc[c] = "gd_dis"
    /\ out' = [out EXCEPT ![c] = pose_cur[c]]
    /\ pc' = [pc EXCEPT ![c] = "gd_prev"]
    /\ UNCHANGED <<odom_mutex, record, pose_prev, cmdvel, lifecycle, cbLocals, op, frame, pose_cur,
                   timestamp, status, history>>

\* dis = pose_cur - pose_prev;
GdDis(c) ==
    /\ pc[c] = "gd_dis"
    /\ out' = [out EXCEPT ![c] = VSub(pose_cur[c], pose_prev)]
    /\ pc' = [pc EXCEPT ![c] = "gd_prev"]
    /\ UNCHANGED <<odom_mutex, record, pose_prev, cmdvel, lifecycle, cbLocals, op, frame, pose_cur,
                   timestamp, status, history>>

\* Faulty variant: the baseline is not moved
GdRebase_NoRebase(c) ==
    /\ pc[c] = "gd_prev"
    /\ UNCHANGED pose_prev
    /\ Finish(c, "ok")
    /\ sumDis' = VAdd(sumDis, out[c])
    /\ lastRead' = shadow.displacement
    /\ quiet' = (acq[c].n = nSamples)
    /\ UNCHANGED <<odom_mutex, record, cmdvel, lifecycle, cbLocals, op, timestamp, out,
                   nSamples, nDone, nCalls, shadow, ideal, increasing>>

\* Faulty variant: the accumulator is cleared when it is consumed.
GdRebase_Reset(c) ==
    /\ pc[c] = "gd_prev"
    /\ pose_prev' = Zero6
    /\ displacement' = Zero6
    /\ Finish(c, "ok")
    /\ sumDis' = VAdd(sumDis, out[c])
    /\ lastRead' = shadow.displacement
    /\ quiet' = (acq[c].n = nSamples)
    /\ UNCHANGED <<odom_mutex, p, q, _sec, _nsec, cmdvel, lifecycle, cbLocals, op, timestamp, out,
                   nSamples, nDone, nCalls, shadow, ideal, increasing>>

\* pose_prev = pose_cur;  and getDisplacement returns
GdRebase(c) ==
    /\ pc[c] = "gd_prev"
    /\ pose_prev' = pose_cur[c]
    /\ Finish(c, "ok")
    /\ sumDis' = VAdd(sumDis, out[c])
    /\ lastRead' = shadow.displacement
    /\ quiet' = (acq[c].n = nSamples)
    /\ UNCHANGED <<odom_mutex, record, cmdvel, lifecycle, cbLocals, op, timestamp, out,
                   nSamples, nDone, nCalls, shadow, ideal, increasing>>

GetDisplacement(c) ==
    \/ GdWait(c)
    \/ GdLock(c)
    \/ GdCopy(c)
    \/ GdReadSec(c)
    \/ GdReadNsec(c)
    \/ GdUnlock(c)
    \/ GdFrame(c)
    \/ GdDis(c)
    \/ GdRebase(c)

(* -------------------------------- init -------------------------------- *)
\* Everything but the lifecycle.
working == <<odom_mutex, record, pose_prev, cmdvel, pc, cbLocals, callerLocals, history>>

\* Some other component of the process calls ros::init first, with master u.
ros_init(u) ==
    /\ alive
    /\ ~ros_isInitialized
    /\ ros_isInitialized' = TRUE
    /\ master_URI' = u
    /\ UNCHANGED <<isInitialized, created, initStatus, alive, working>>

\* The body of init(int argc, char **argv); u is the master its arguments and
\* the environment name.
Connect(u) ==
    IF ~isInitialized
    THEN /\ ros_isInitialized' = TRUE
         /\ master_URI' = IF ros_isInitialized THEN master_URI ELSE u
         /\ created' = [k \in DOMAIN created |-> created[k] + 1]
         /\ isInitialized' = TRUE
    ELSE UNCHANGED <<isInitialized, ros_isInitialized, master_URI, created>>

\* init(int argc, char **argv)
InitArgs(u) ==
    /\ alive
    /\ Connect(u)
    /\ initStatus' = "ok"
    /\ UNCHANGED <<alive, working>>

\* Faulty variant: init() without the test of the master.
InitNoArgs_NoCheck ==
    /\ alive
    /\ IF ~isInitialized
       THEN \/ /\ initStatus' = "crash"
               /\ alive' = FALSE
               /\ UNCHANGED <<isInitialized, ros_isInitialized, master_URI, created>>
            \/ /\ Connect(_master_uri)
               /\ initStatus' = "ok"
               /\ UNCHANGED alive
       ELSE /\ initStatus' = "ok"
            /\ UNCHANGED <<isInitialized, ros_isInitialized, master_URI, created, alive>>
    /\ UNCHANGED working

\* init().  The strcpy calls write through the two pointers of char *argv[2],
\* which were never set: the process is killed there, or the copies land in
\* memory that takes them and init(argc, argv) runs with __master:=_master_uri.
InitNoArgs ==
    /\ alive
    /\ IF ros_isInitialized /\ master_URI # _master_uri
       THEN /\ initStatus' = "error"
            /\ UNCHANGED <<isInitialized, ros_isInitialized, master_URI, created, alive>>
       ELSE IF ~isInitialized
            THEN \/ /\ initStatus' = "crash"
                    /\ alive' = FALSE
                    /\ UNCHANGED <<isInitialized, ros_isInitialized, master_URI, created>>
                 \/ /\ Connect(_master_uri)
                    /\ initStatus' = "ok"
                    /\ UNCHANGED alive
            ELSE /\ initStatus' = "ok"
                 /\ UNCHANGED <<isInitialized, ros_isInitialized, master_URI, created, alive>>
    /\ UNCHANGED working

\* The adapter is made active, by init(argc, argv) naming the master _master_uri.
Activate == ~isInitialized /\ InitArgs(_master_uri)

(* --------------------------- specifications --------------------------- *)
Running(t) == pc[t] # "idle"
AllIdle == \A t \in Threads : ~Running(t)

\* Any interleaving of the spinner thread and the caller threads.
Next ==
    \/ Activate
    \/ \E m \in ConcMsgs : Deliver(m, MaxSamples)
    \/ OdomCallback
    \/ \E c \in Callers, f \in ConcFrames :
          \/ \E vel \in ConcVelocities : SetVelocity(c, f, vel, MaxCalls)
          \/ CallGetPosition(c, f, MaxCalls)
          \/ CallGetDisplacement(c, f, MaxCalls)
    \/ \E c \in Callers : GetPosition(c) \/ GetDisplacement(c)

Spec == Init /\ [][Next]_vars

\* One thing at a time: a message is delivered or a call is made only when the
\* callback and every earlier call have returned.
SeqCallers == {1}

SeqNext ==
    \/ Activate
    \/ AllIdle /\ \E m \in SeqMsgs : Deliver(m, SeqMaxSamples)
    \/ OdomCallback
    \/ AllIdle /\ \E c \in SeqCallers, f \in Frames :
          \/ \E vel \in Velocities : SetVelocity(c, f, vel, SeqMaxCalls)
          \/ CallGetPosition(c, f, SeqMaxCalls)
          \/ CallGetDisplacement(c, f, SeqMaxCalls)
    \/ \E c \in SeqCallers : GetPosition(c) \/ GetDisplacement(c)

SeqSpec == Init /\ [][SeqNext]_vars

\* One producer and one consumer: the spinner thread integrates samples with
\* strictly increasing stamps while caller 1 calls getDisplacement in a loop.
Later(m) == nSamples = 0 \/ Dt(m, msg.sec, msg.nsec) > 0

PCNext ==
    \/ Activate
    \/ \E m \in Msgs : Later(m) /\ Deliver(m, PCMaxSamples)
    \/ OdomCallback
    \/ CallGetDisplacement(1, REFERENCE_FRAME, PCMaxCalls)
    \/ GetDisplacement(1)

PCSpec == Init /\ [][PCNext]_vars

\* One caller beside the spinner thread, every thread scheduled fairly: a thread
\* that can take its next step keeps being scheduled until it has taken it.
FairNext ==
    \/ Activate
    \/ \E m \in ConcMsgs : Deliver(m, MaxSamples)
    \/ OdomCallback
    \/ \E f \in ConcFrames :
          \/ CallGetPosition(1, f, MaxCalls)
          \/ CallGetDisplacement(1, f, MaxCalls)
    \/ GetPosition(1) \/ GetDisplacement(1)

FairSpec ==
    /\ Init
    /\ [][FairNext]_vars
    /\ WF_vars(OdomCallback)
    /\ WF_vars(GetPosition(1) \/ GetDisplacement(1))

\* The lifecycle: any sequence of calls of the two init overloads, in a process
\* where another component may have initialised ROS first, and the samples the
\* subscription brings once the adapter is active.
LifeNext ==
    \/ \E u \in URIs : ros_init(u)
    \/ \E u \in URIs : InitArgs(u)
    \/ InitNoArgs
    \/ \E m \in ConcMsgs : Deliver(m, MaxSamples)
    \/ OdomCallback

LifeSpec == Init /\ [][LifeNext]_vars

\* Caller 1 reads while caller 2 commands the robot and the spinner thread
\* integrates samples.
SVNext ==
    \/ Activate
    \/ \E m \in ConcMsgs : Deliver(m, SVMaxSamples)
    \/ OdomCallback
    \/ \E f \in ConcFrames :
          \/ CallGetPosition(1, f, SVMaxCalls)
          \/ CallGetDisplacement(1, f, SVMaxCalls)
    \/ GetPosition(1) \/ GetDisplacement(1)
    \/ \E f \in Frames, vel \in ConcVelocities : SetVelocity(2, f, vel, SVMaxCalls)

SVSpec == Init /\ [][SVNext]_vars

(* ------------------------------- claims ------------------------------- *)
\* Thread t is between its odom_mutex = false and its odom_mutex = true.
Holds(t) ==
    pc[t] \in { "cb_p", "cb_q", "cb_if", "cb_acc", "cb_sec", "cb_nsec", "cb_unlock",
                "gp_frame", "gp_p", "gp_q", "gp_unlock",
                "gd_cur", "gd_sec", "gd_nsec", "gd_unlock" }

\* C1: at most one thread is between its acquisition of the guard and its release.
MutualExclusion == Cardinality({ t \in Threads : Holds(t) }) <= 1

\* C2: when no thread holds the guard (every call that took it has returned or
\* thrown), the guard is free.
GuardReleasedOnExit == (\A t \in Threads : ~Holds(t)) => odom_mutex

\* C3: one producer, one consumer: once every sample delivered is integrated and a
\* getDisplacement that began after that has returned, the deltas returned add up
\* to the displacement the samples give when integrated one by one.
DisplacementConserved ==
    (pc[Spinner] = "idle" /\ nDone = nSamples /\ quiet) => sumDis = shadow.displacement

DisplacementConservedWitness ==
    /\ pc[Spinner] = "idle" /\ nDone = PCMaxSamples /\ quiet
    /\ nCalls >= 2
    /\ sumDis # Zero6
    /\ out[1] # Zero6
    /\ out[1] # sumDis

\* C4: a getPosition call reads the position and the orientation of the sample
\* last integrated when it passed the guard, and a getDisplacement call snapshots
\* the accumulator and the stamp as they were after that sample.
NoTornReads ==
    \A c \in Callers :
        /\ pc[c] = "gp_unlock" => out[c] = PoseOf(acq[c].rec.p, acq[c].rec.q)
        /\ pc[c] = "gd_unlock" =>
              /\ pose_cur[c] = acq[c].rec.displacement
              /\ timestamp[c] = <<acq[c].rec.sec, acq[c].rec.nsec>>

\* C5: under fair scheduling every call that has started returns or throws.
EveryCallFinishes == \A t \in Threads : Running(t) ~> ~Running(t)

\* C6: each getDisplacement returns what was integrated since the previous
\* getDisplacement returned a delta (since construction for the first), and the
\* baseline is the accumulator as of that previous return.
IncrementSinceLastCall ==
    /\ AllIdle => pose_prev = lastRead
    /\ \A c \in Callers : pc[c] = "gd_prev" => out[c] = VSub(shadow.displacement, lastRead)

IncrementSinceLastCallWitness ==
    /\ pc[1] = "gd_prev"
    /\ lastRead # Zero6
    /\ out[1] # Zero6
    /\ out[1] # displacement

\* C7: a getDisplacement that follows another with no sample in between returns
\* the zero delta.
ConsumingRead == \A c \in Callers : (pc[c] = "gd_prev" /\ quiet) => out[c] = Zero6

ConsumingReadWitness ==
    /\ pc[1] = "gd_prev"
    /\ quiet
    /\ lastRead # Zero6
    /\ out[1] = Zero6

\* C8: after N >= 1 samples with strictly increasing stamps the accumulator is the
\* sum over k = 2..N of twist_k * (t_k - t_(k-1)).
IntegrationFormula ==
    (pc[Spinner] = "idle" /\ nDone >= 1 /\ increasing) => displacement = ideal

\* C9: a getPosition made after the N-th callback returned yields the N-th
\* sample's position and the angles of its orientation.
LastWriteWins ==
    \A c \in Callers :
        (pc[c] = "gp_unlock" /\ nDone >= 1) => out[c] = PoseOf(msg.pos, msg.ori)

LastWriteWinsWitness ==
    /\ pc[1] = "gp_unlock"
    /\ nDone >= 2
    /\ shadow.displacement # Zero6
    /\ out[1] = <<4, 5, 6, 1, 0, 1>>

\* C10: a call with a frame other than the reference frame ends with the error,
\* and none of its steps changes position, orientation, stamp, accumulator or
\* baseline, or publishes a command.
UnsupportedFrameNoEffect ==
    [][\A c \in Callers :
          /\ \A f \in Frames \ {REFERENCE_FRAME} :
                (\E vel \in Velocities : SetVelocity(c, f, vel, SeqMaxCalls)) =>
                    /\ status'[c] = "error"
                    /\ UNCHANGED <<record, pose_prev, cmdvel>>
          /\ (Running(c) /\ frame[c] # REFERENCE_FRAME /\ pc'[c] # pc[c]) =>
                    /\ UNCHANGED <<record, pose_prev, cmdvel>>
                    /\ pc'[c] = "idle" => status'[c] = "error"
                    /\ pc'[c] \notin {"gp_p", "gd_dis"}
      ]_vars

UnsupportedFrameNoEffectWitness ==
    /\ op[1] = "getDisplacement"
    /\ status[1] = "error"
    /\ displacement # pose_prev
    /\ pc[1] = "idle"

\* C11: a setVelocity call with the reference frame can be made whatever the
\* guard's state is (it does not wait on it), publishes exactly one command whose
\* linear fields are vel[0..2] and whose angular fields are vel[3..5], in order,
\* returns without error, and changes neither the guard nor position, orientation,
\* stamp, accumulator or baseline.
SetVelocityIndependent ==
    /\ [](\A vel \in Velocities :
            (isInitialized /\ nCalls < SVMaxCalls) =>
                ENABLED SetVelocity(2, REFERENCE_FRAME, vel, SVMaxCalls))
    /\ [][\A vel \in Velocities :
            SetVelocity(2, REFERENCE_FRAME, vel, SVMaxCalls) =>
                /\ cmdvel'.n = cmdvel.n + 1
                /\ cmdvel'.last.linear = <<vel[1], vel[2], vel[3]>>
                /\ cmdvel'.last.angular = <<vel[4], vel[5], vel[6]>>
                /\ status'[2] = "ok"
                /\ UNCHANGED <<odom_mutex, record, pose_prev>>
         ]_vars

\* Caller 2's command went out while caller 1 was inside getPosition, holding
\* the guard.
SetVelocityIndependentWitness ==
    /\ pc[1] = "gp_q"
    /\ ~odom_mutex
    /\ nCalls = 2
    /\ op[2] = "setVelocity"
    /\ status[2] = "ok"
    /\ cmdvel = [n |-> 1, last |-> [linear |-> <<1, 2, 3>>, angular |-> <<4, 5, 6>>]]
    /\ out[1] # Untouched

\* C12: over any sequence of calls of the two init overloads the adapter never
\* goes back from active to uninitialized, the node handle, the publisher, the
\* subscription and the spinner exist exactly once when it is active and not at
\* all before, and every init call on an active adapter raises no error and
\* changes nothing.
InitIdempotent ==
    [][/\ isInitialized => isInitialized'
       /\ created' = IF isInitialized'
                     THEN [k \in DOMAIN created |-> 1]
                     ELSE NothingCreated
       /\ (isInitialized /\ (InitNoArgs \/ \E u \in URIs : InitArgs(u))) =>
              /\ initStatus' = "ok"
              /\ UNCHANGED <<isInitialized, ros_isInitialized, master_URI, created, alive>>
              /\ UNCHANGED working
      ]_vars

\* C13: an init() call made while ROS is initialised in the process with a master
\* other than _master_uri fails with the construction error, creates no node
\* handle, publisher, subscription or spinner, and leaves the adapter as it was:
\* an uninitialized adapter remains uninitialized.
ConfigurationConflict ==
    [][(InitNoArgs /\ ros_isInitialized /\ master_URI # _master_uri) =>
          /\ initStatus' = "error"
          /\ UNCHANGED <<created, isInitialized, ros_isInitialized, master_URI>>
          /\ ~isInitialized => (~isInitialized' /\ created' = NothingCreated)
      ]_vars

ConfigurationConflictWitness ==
    /\ initStatus = "error"
    /\ ~isInitialized
    /\ ros_isInitialized
    /\ master_URI = "http://10.0.0.1:11311"
    /\ created = NothingCreated
    /\ alive

\* The next statement of thread t reads or writes p, q, _sec, _nsec, displacement
\* or pose_prev.
Accesses(t) ==
    pc[t] \in { "cb_p", "cb_q", "cb_if", "cb_acc", "cb_sec", "cb_nsec",
                "gp_p", "gp_q",
                "gd_cur", "gd_sec", "gd_nsec", "gd_dis", "gd_prev" }

\* C14: a thread that reads or writes position, orientation, stamp, accumulator
\* or baseline, in odomCallback, getPosition or getDisplacement, holds the guard
\* while it does.
GuardCoversRecord == \A t \in Threads : Accesses(t) => Holds(t)

\* C15: the first sample adds nothing to the accumulator, and every later sample,
\* whatever the stamp of the sample before it (0 s 0 ns included), adds its
\* twist times the time since that sample.
OnlyFirstSampleSkipped ==
    pc[Spinner] = "cb_unlock" =>
        displacement = IF nDone = 0
                       THEN shadow.displacement
                       ELSE VAdd(shadow.displacement,
                                 VScale(msg.twist, Dt(msg, shadow.sec, shadow.nsec)))

\* The last call of caller c was a getDisplacement that returned a delta.
Returned(c) == pc[c] = "idle" /\ op[c] = "getDisplacement" /\ status[c] = "ok"

\* C16 (as claimed): after a getDisplacement with the reference frame has
\* returned, and before the next sample, the accumulator is zero in all six
\* components.
AccumulatorResetOnRead ==
    \A c \in Callers : (Returned(c) /\ quiet) => displacement = Zero6

\* C16 (amended): the accumulator is never reset: between callbacks it is what all
\* the samples since construction give, whatever calls were made; a
\* getDisplacement with the reference frame consumes it by setting the baseline to
\* it, so that after the call, and before the next sample, accumulator minus
\* baseline is zero.
AccumulatorRebased ==
    /\ pc[Spinner] = "idle" => displacement = shadow.displacement
    /\ \A c \in Callers :
          (Returned(c) /\ quiet) =>
              /\ pose_prev = displacement
              /\ VSub(displacement, pose_prev) = Zero6

AccumulatorRebasedWitness ==
    /\ Returned(1)
    /\ quiet
    /\ nCalls >= 2
    /\ out[1] # Zero6
    /\ displacement # Zero6
    /\ displacement # out[1]

\* C17: when the stamp of the sample before is set and a sample arrives whose
\* stamp is not later, odomCallback runs to its end without error: it adds the
\* twist times dt = seconds difference + nanoseconds difference / 1e9, which is
\* zero or negative, to the accumulator, overwrites position and orientation with
\* the sample's, and sets the stamp to the sample's.
NonMonotonicIntegrated ==
    (/\ pc[Spinner] = "cb_unlock"
     /\ StampSet(shadow.sec, shadow.nsec)
     /\ Dt(msg, shadow.sec, shadow.nsec) <= 0) =>
        /\ dt = (msg.sec - shadow.sec) * TicksPerSec
                    + (msg.nsec - shadow.nsec) \div NsecPerTick
        /\ dt <= 0
        /\ displacement = [i \in 1..6 |-> shadow.displacement[i] + msg.twist[i] * dt]
        /\ p = msg.pos
        /\ q = msg.ori
        /\ <<_sec, _nsec>> = <<msg.sec, msg.nsec>>
        /\ ENABLED CbUnlock

NonMonotonicIntegratedWitness ==
    /\ pc[Spinner] = "cb_unlock"
    /\ StampSet(shadow.sec, shadow.nsec)
    /\ Dt(msg, shadow.sec, shadow.nsec) < 0
    /\ msg.twist = <<1, 2, 3, 4, 5, 6>>
    /\ displacement # shadow.displacement
    /\ p # shadow.p
    /\ \E i \in 1..6 : displacement[i] < 0

\* C18: with several threads calling getDisplacement while samples are
\* integrated, once every call has returned the deltas returned add up to the
\* baseline, which is the latest snapshot taken; when that snapshot was taken
\* after every sample was integrated it is the accumulator, so that nothing
\* integrated is counted twice or lost.
NoDoubleCount ==
    (\A c \in Callers : ~Running(c)) =>
        /\ sumDis = pose_prev
        /\ (quiet /\ pc[Spinner] = "idle") =>
              (pose_prev = displacement /\ sumDis = displacement)

\* C19: getPosition calls, with any frame, do not change what a later
\* getDisplacement does: made when nothing else runs, that call is not held up,
\* and it returns what was integrated since the previous delta was returned, as
\* it does when no getPosition call was made.
GetPositionPure ==
    \A c \in Callers :
        /\ (pc[c] = "gd_wait" /\ \A t \in Threads \ {c} : ~Running(t)) => odom_mutex
        /\ pc[c] = "gd_prev" => out[c] = VSub(shadow.displacement, lastRead)
====
